---- MODULE Spec2Model ----
(***************************************************************************)
(* A model of the dineplan REST framework (restFramework.go) and of its    *)
(* demo application (main.go): the path matcher and route table, the       *)
(* bounded worker pool around handleRequest, the lock around the route     *)
(* table, the Response writer, the in-memory UserRepository, and the       *)
(* start-up and shutdown of the process.                                   *)
(*                                                                         *)
(* Go strings are modelled as sequences of one-character strings, so that  *)
(* strings.Trim, strings.Split and strings.HasPrefix are computed and not  *)
(* assumed.                                                                *)
(***************************************************************************)
EXTENDS Integers, Sequences, FiniteSets, TLC

VARIABLES
    \* ---- PathMatcher harness: one pattern against one path
    mPattern, mPath, mPc, mResult,
    \* ---- Server: s.routes and the number of tokens buffered in s.workerPool
    routes, workerPool,
    \* ---- one goroutine per request running handleRequest
    pc,          \* position of the request in handleRequest
    reqMethod,   \* r.Method
    reqPath,     \* r.URL.Path
    snap,        \* routes, ok := s.routes[r.Method]
    matchedIdx,  \* index of the route whose handler was invoked, 0 if none
    invoked,     \* route.handler that was invoked, 0 if none
    reqParams,   \* req.params given to the handler
    notFound,    \* number of http.NotFound calls made for the request
    panicked,    \* whether the handler panicked
    acquired,    \* number of sends to s.workerPool by the request
    released,    \* number of receives from s.workerPool by the request
    \* ---- the goroutine that registers routes
    regPc,       \* "idle", or the call of Any that comes next
    regCall,     \* the current (or last) registration call
    regBase,     \* s.routes when that call was made
    regCount,    \* number of registration calls made
    \* ---- one Response and the http.ResponseWriter under it
    resp,        \* the Response: writer, headerWritten, status, headers
    respCalls,   \* the methods called on it so far, in order
    respArg,     \* the argument of the last of these calls
    \* ---- the UserRepository and the goroutines that call its methods
    users,       \* ur.users
    repoMu,      \* ur.mu: the writer holding it (0 if none) and the readers
    cpc,         \* position of each caller in Add, GetAll or GetByID
    cUser,       \* the local variable user of a caller
    cRet,        \* what the call returned to the caller
    \* ---- s.mu, for the steps of addRoute and of the lookup taken one by one
    srvMu,       \* s.mu: whether a writer holds it, and the readers
    addDone,     \* the calls of addRoute that have returned
    \* ---- the two goroutines of main and the process they run in
    mainPc,      \* position of the main goroutine
    listenPc,    \* position of the goroutine that calls app.Listen
    srvServer,   \* s.server: "nil" until Listen assigns it
    sigChan,     \* number of signals buffered in sigChan
    shutdownChan, \* number of close(shutdownChan) calls made
    listener,    \* the listening socket: "none", "open" or "closed"
    ctx,         \* the context of line 135: "none", "live" or "done"
    shutdownOn,  \* what Server.Shutdown was called on: "none", "nil", "server"
    shutdownErr, \* what app.Shutdown returned: "none", "nil" or "deadline"
    procExit     \* "running", or how the process ended

matchVars == <<mPattern, mPath, mPc, mResult>>

serverVars == <<routes, workerPool>>

reqVars == <<pc, reqMethod, reqPath, snap, matchedIdx, invoked, reqParams,
             notFound, panicked, acquired, released>>

regVars == <<regPc, regCall, regBase, regCount>>

respVars == <<resp, respCalls, respArg>>

repoVars == <<users, repoMu, cpc, cUser, cRet>>

lockVars == <<srvMu, addDone>>

lifeVars == <<mainPc, listenPc, srvServer, sigChan, shutdownChan, listener, ctx,
              shutdownOn, shutdownErr, procExit>>

\* what a step of handleRequest and a registration call leave alone
outsideServer == <<matchVars, respVars, repoVars, lockVars, lifeVars>>

vars == <<matchVars, serverVars, reqVars, regVars, respVars, repoVars, lockVars,
          lifeVars>>

(***************************************************************************)
(* Bounds of the model.                                                    *)
(***************************************************************************)
\* longest route pattern and longest URL path the matcher harness enumerates
MaxPatternLen == 4
MaxPathLen == 4
\* capacity of s.workerPool (runtime.NumCPU() * 100 in NewServer, scaled down)
MaxWorkers == 2
\* number of registration calls (Get, Post, Put, Delete, Any) the registering
\* goroutine makes
MaxRegs == 3
\* number of method calls made on one Response
MaxCalls == 4
\* number of goroutines calling the UserRepository, one call each
NumCallers == 3

(***************************************************************************)
(* Strings.                                                                *)
(***************************************************************************)
Alphabet == {"/", ":", "a", "b"}

StringsUpTo(n) == UNION {[1..k -> Alphabet] : k \in 0..n}

\* the paths of requests: r.URL.Path of a request that reaches a handler of
\* the ServeMux begins with "/"
PathsUpTo(n) == {<<"/">> \o rest : rest \in StringsUpTo(n - 1)}

\* strings.Trim(s, "/") : every leading and every trailing "/" is removed
RECURSIVE TrimLeft(_)
TrimLeft(s) ==
    IF s # <<>> /\ Head(s) = "/" THEN TrimLeft(Tail(s)) ELSE s

RECURSIVE TrimRight(_)
TrimRight(s) ==
    IF s # <<>> /\ s[Len(s)] = "/" THEN TrimRight(SubSeq(s, 1, Len(s) - 1)) ELSE s

Trim(s) == TrimRight(TrimLeft(s))

\* strings.Split(s, "/") : one more piece than there are separators, so the
\* empty string splits into one empty piece
RECURSIVE SplitFrom(_, _)
SplitFrom(s, cur) ==
    IF s = <<>> THEN <<cur>>
    ELSE IF Head(s) = "/" THEN <<cur>> \o SplitFrom(Tail(s), <<>>)
    ELSE SplitFrom(Tail(s), Append(cur, Head(s)))

Split(s) == SplitFrom(s, <<>>)

\* a plausible slip: strings.Contains in place of strings.HasPrefix
HasPrefixContains(part) == \E i \in 1..Len(part) : part[i] = ":"

\* strings.HasPrefix(part, ":")
HasPrefix(part) == part # <<>> /\ Head(part) = ":"

(***************************************************************************)
(* Path matching, restFramework.go handleRequest lines 65-85.              *)
(***************************************************************************)
\* make(map[string]string)
EmptyParams == [n \in {} |-> <<>>]

\* params[name] = value : a later assignment to the same key replaces the
\* earlier one
SetParam(params, name, value) ==
    [n \in (DOMAIN params) \cup {name} |-> IF n = name THEN value ELSE params[n]]

\* the loop over routeParts (lines 78-85) from segment i on: a ':'-segment
\* binds, a literal segment that differs ends the loop with match = false
RECURSIVE MatchLoop(_, _, _, _)
MatchLoop(routeParts, pathParts, i, params) ==
    IF i > Len(routeParts) THEN [match |-> TRUE, params |-> params]
    ELSE IF HasPrefix(routeParts[i])
         THEN MatchLoop(routeParts, pathParts, i + 1,
                        SetParam(params, Tail(routeParts[i]), pathParts[i]))
    ELSE IF routeParts[i] # pathParts[i]
         THEN [match |-> FALSE, params |-> params]
    ELSE MatchLoop(routeParts, pathParts, i + 1, params)

\* a plausible slip: "<" in place of "!=", which lets a pattern match a
\* longer path by its prefix
RouteMatchPrefix(routePath, pathParts) ==
    LET routeParts == Split(Trim(routePath))
    IN  IF Len(pathParts) < Len(routeParts)
        THEN [match |-> FALSE, skipped |-> TRUE, params |-> EmptyParams]
        ELSE LET res == MatchLoop(routeParts, pathParts, 1, EmptyParams)
             IN  [match |-> res.match, skipped |-> FALSE, params |-> res.params]

\* one iteration of the loop over routes (lines 69-85): a route whose segment
\* count differs is skipped before its params map is made
RouteMatch(routePath, pathParts) ==
    LET routeParts == Split(Trim(routePath))
    IN  IF Len(routeParts) # Len(pathParts)
        THEN [match |-> FALSE, skipped |-> TRUE, params |-> EmptyParams]
        ELSE LET res == MatchLoop(routeParts, pathParts, 1, EmptyParams)
             IN  [match |-> res.match, skipped |-> FALSE, params |-> res.params]

\* lines 65-66
PathParts(urlPath) == Split(Trim(urlPath))

\* a plausible slip: the loop keeps the last matching route, not the first
RECURSIVE FindLastFrom(_, _, _)
FindLastFrom(routeList, pathParts, k) ==
    IF k < 1
    THEN [found |-> FALSE, idx |-> 0, handler |-> 0, params |-> EmptyParams]
    ELSE LET m == RouteMatch(routeList[k].path, pathParts)
         IN  IF m.match
             THEN [found |-> TRUE, idx |-> k, handler |-> routeList[k].handler,
                   params |-> m.params]
             ELSE FindLastFrom(routeList, pathParts, k - 1)

FindRouteLast(routeList, pathParts) ==
    FindLastFrom(routeList, pathParts, Len(routeList))

\* the loop over routes (lines 68-95) from route k on: the first route that
\* matches ends the loop, with the params map made for that route
RECURSIVE FindFrom(_, _, _)
FindFrom(routeList, pathParts, k) ==
    IF k > Len(routeList)
    THEN [found |-> FALSE, idx |-> 0, handler |-> 0, params |-> EmptyParams]
    ELSE LET m == RouteMatch(routeList[k].path, pathParts)
         IN  IF m.match
             THEN [found |-> TRUE, idx |-> k, handler |-> routeList[k].handler,
                   params |-> m.params]
             ELSE FindFrom(routeList, pathParts, k + 1)

\* a plausible slip: the params map made once before the loop over routes,
\* so that the bindings of a route that failed stay in it
RECURSIVE FindHoistedFrom(_, _, _, _)
FindHoistedFrom(routeList, pathParts, k, params) ==
    IF k > Len(routeList)
    THEN [found |-> FALSE, idx |-> 0, handler |-> 0, params |-> EmptyParams]
    ELSE LET routeParts == Split(Trim(routeList[k].path))
         IN  IF Len(routeParts) # Len(pathParts)
             THEN FindHoistedFrom(routeList, pathParts, k + 1, params)
             ELSE LET res == MatchLoop(routeParts, pathParts, 1, params)
                  IN  IF res.match
                      THEN [found |-> TRUE, idx |-> k,
                            handler |-> routeList[k].handler, params |-> res.params]
                      ELSE FindHoistedFrom(routeList, pathParts, k + 1, res.params)

FindRouteHoisted(routeList, pathParts) ==
    FindHoistedFrom(routeList, pathParts, 1, EmptyParams)

FindRoute(routeList, pathParts) == FindFrom(routeList, pathParts, 1)

(***************************************************************************)
(* The Server: NewServer, and the requests running handleRequest.          *)
(***************************************************************************)
\* maxWorkers, the capacity of the workerPool channel (line 30)
maxWorkers == MaxWorkers

\* capacity+1 requests, so that one of them can find the pool full
Requests == 1..(maxWorkers + 1)

MethodGet == "GET"
MethodPost == "POST"
MethodPut == "PUT"
MethodDelete == "DELETE"
\* a method the framework has no registration call for
MethodPatch == "PATCH"

\* make(map[string][]Route): no method has an entry
NoRoutes == [m \in {} |-> <<>>]

\* the value of s.routes[method], and whether the key is present
RoutesOf(table, method) ==
    IF method \in DOMAIN table THEN [ok |-> TRUE, list |-> table[method]]
    ELSE [ok |-> FALSE, list |-> <<>>]

NoSnap == [ok |-> FALSE, list |-> <<>>]

\* s.mu as NewServer leaves it, no call of addRoute made
LockIdle ==
    /\ srvMu = [writer |-> FALSE, readers |-> {}]
    /\ addDone = {}

\* the process before main has started its goroutine
LifeIdle ==
    /\ mainPc = "off"
    /\ listenPc = "off"
    /\ srvServer = "nil"
    /\ sigChan = 0
    /\ shutdownChan = 0
    /\ listener = "none"
    /\ ctx = "none"
    /\ shutdownOn = "none"
    /\ shutdownErr = "none"
    /\ procExit = "running"

ReqIdle ==
    /\ pc = [r \in Requests |-> "idle"]
    /\ reqMethod = [r \in Requests |-> ""]
    /\ reqPath = [r \in Requests |-> <<>>]
    /\ snap = [r \in Requests |-> NoSnap]
    /\ matchedIdx = [r \in Requests |-> 0]
    /\ invoked = [r \in Requests |-> 0]
    /\ reqParams = [r \in Requests |-> EmptyParams]
    /\ notFound = [r \in Requests |-> 0]
    /\ panicked = [r \in Requests |-> FALSE]
    /\ acquired = [r \in Requests |-> 0]
    /\ released = [r \in Requests |-> 0]

\* NewServer (lines 29-35): no route, an empty workerPool
ServerNew ==
    /\ routes = NoRoutes
    /\ workerPool = 0

\* the net/http server calls s.handleRequest(w, r) on a goroutine of its own
Arrive(r, method, path) ==
    /\ pc[r] = "idle"
    /\ pc' = [pc EXCEPT ![r] = "acquire"]
    /\ reqMethod' = [reqMethod EXCEPT ![r] = method]
    /\ reqPath' = [reqPath EXCEPT ![r] = path]
    /\ UNCHANGED <<snap, matchedIdx, invoked, reqParams, notFound, panicked,
                   acquired, released>>
    /\ UNCHANGED <<serverVars, regVars, outsideServer>>

\* a plausible slip: an off-by-one in the capacity of the channel
CanSendOneMore == workerPool <= maxWorkers

\* a send to the buffered channel proceeds only while the buffer is not full
CanSend == workerPool < maxWorkers

\* line 51: s.workerPool <- struct{}{}
Acquire(r) ==
    /\ pc[r] = "acquire"
    /\ CanSend
    /\ workerPool' = workerPool + 1
    /\ acquired' = [acquired EXCEPT ![r] = @ + 1]
    /\ pc' = [pc EXCEPT ![r] = "lookup"]
    /\ UNCHANGED <<reqMethod, reqPath, snap, matchedIdx, invoked, reqParams,
                   notFound, panicked, released>>
    /\ UNCHANGED <<routes, regVars, outsideServer>>

\* lines 56-58: the route list of the method is read under the read lock
ReadRoutes(r) ==
    /\ pc[r] = "lookup"
    /\ snap' = [snap EXCEPT ![r] = RoutesOf(routes, reqMethod[r])]
    /\ pc' = [pc EXCEPT ![r] = "route"]
    /\ UNCHANGED <<reqMethod, reqPath, matchedIdx, invoked, reqParams,
                   notFound, panicked, acquired, released>>
    /\ UNCHANGED <<serverVars, regVars, outsideServer>>

\* a plausible slip: no return after the http.NotFound of line 61, so that
\* the loop runs over the nil list and line 97 answers a second time
MethodNotFoundFallsThrough(r) ==
    /\ pc[r] = "route"
    /\ ~snap[r].ok
    /\ notFound' = [notFound EXCEPT ![r] = @ + 2]
    /\ pc' = [pc EXCEPT ![r] = "release"]
    /\ UNCHANGED <<reqMethod, reqPath, snap, matchedIdx, invoked, reqParams,
                   panicked, acquired, released>>
    /\ UNCHANGED <<serverVars, regVars, outsideServer>>

\* lines 60-63: the method has no entry in s.routes
MethodNotFound(r) ==
    /\ pc[r] = "route"
    /\ ~snap[r].ok
    /\ notFound' = [notFound EXCEPT ![r] = @ + 1]
    /\ pc' = [pc EXCEPT ![r] = "release"]
    /\ UNCHANGED <<reqMethod, reqPath, snap, matchedIdx, invoked, reqParams,
                   panicked, acquired, released>>
    /\ UNCHANGED <<serverVars, regVars, outsideServer>>

\* lines 65-92: a route matches, and its handler is called with its params
InvokeHandler(r) ==
    /\ pc[r] = "route"
    /\ snap[r].ok
    /\ LET res == FindRoute(snap[r].list, PathParts(reqPath[r]))
       IN  /\ res.found
           /\ matchedIdx' = [matchedIdx EXCEPT ![r] = res.idx]
           /\ invoked' = [invoked EXCEPT ![r] = res.handler]
           /\ reqParams' = [reqParams EXCEPT ![r] = res.params]
    /\ pc' = [pc EXCEPT ![r] = "handler"]
    /\ UNCHANGED <<reqMethod, reqPath, snap, notFound, panicked, acquired,
                   released>>
    /\ UNCHANGED <<serverVars, regVars, outsideServer>>

\* lines 65-97: no route of the method matches
PathNotFound(r) ==
    /\ pc[r] = "route"
    /\ snap[r].ok
    /\ ~FindRoute(snap[r].list, PathParts(reqPath[r])).found
    /\ notFound' = [notFound EXCEPT ![r] = @ + 1]
    /\ pc' = [pc EXCEPT ![r] = "release"]
    /\ UNCHANGED <<reqMethod, reqPath, snap, matchedIdx, invoked, reqParams,
                   panicked, acquired, released>>
    /\ UNCHANGED <<serverVars, regVars, outsideServer>>

\* lines 92-93: the handler returns
HandlerReturn(r) ==
    /\ pc[r] = "handler"
    /\ pc' = [pc EXCEPT ![r] = "release"]
    /\ UNCHANGED <<reqMethod, reqPath, snap, matchedIdx, invoked, reqParams,
                   notFound, panicked, acquired, released>>
    /\ UNCHANGED <<serverVars, regVars, outsideServer>>

\* a plausible slip: the release written after the handler call and not
\* deferred, so that a panic leaves handleRequest without it
PanicSkipsRelease == "done"

\* a panic unwinds handleRequest through its deferred function (lines 52-54)
PanicUnwindsTo == "release"

\* line 92: the handler panics
HandlerPanic(r) ==
    /\ pc[r] = "handler"
    /\ panicked' = [panicked EXCEPT ![r] = TRUE]
    /\ pc' = [pc EXCEPT ![r] = PanicUnwindsTo]
    /\ UNCHANGED <<reqMethod, reqPath, snap, matchedIdx, invoked, reqParams,
                   notFound, acquired, released>>
    /\ UNCHANGED <<serverVars, regVars, outsideServer>>

\* a plausible slip: the deferred function left empty, so that the request
\* leaves handleRequest with its slot
ReleaseKeepsSlot(r) ==
    /\ pc[r] = "release"
    /\ pc' = [pc EXCEPT ![r] = "done"]
    /\ UNCHANGED <<reqMethod, reqPath, snap, matchedIdx, invoked, reqParams,
                   notFound, panicked, acquired, released>>
    /\ UNCHANGED <<serverVars, regVars, outsideServer>>

\* lines 52-54: the deferred <-s.workerPool
Release(r) ==
    /\ pc[r] = "release"
    /\ workerPool > 0
    /\ workerPool' = workerPool - 1
    /\ released' = [released EXCEPT ![r] = @ + 1]
    /\ pc' = [pc EXCEPT ![r] = "done"]
    /\ UNCHANGED <<reqMethod, reqPath, snap, matchedIdx, invoked, reqParams,
                   notFound, panicked, acquired>>
    /\ UNCHANGED <<routes, regVars, outsideServer>>

\* handleRequest (lines 50-98), one step of request r
handleRequest(r) ==
    \/ Acquire(r)
    \/ ReadRoutes(r)
    \/ MethodNotFound(r)
    \/ InvokeHandler(r)
    \/ PathNotFound(r)
    \/ HandlerReturn(r)
    \/ HandlerPanic(r)
    \/ Release(r)

(***************************************************************************)
(* The Response (lines 175-240) over an http.ResponseWriter.  The writer   *)
(* is modelled by what it was given: its header map, the WriteHeader calls *)
(* made on it (each with the header map of that moment) and the pieces     *)
(* written to it.                                                          *)
(***************************************************************************)
\* http.StatusOK
StatusOK == 200

NoHeaders == [n \in {} |-> ""]

\* an http.ResponseWriter nothing was done to
NewWriter == [header |-> NoHeaders, wroteHeader |-> <<>>, body |-> <<>>]

\* textproto.CanonicalMIMEHeaderKey, which http.Header.Set applies to the
\* key, on the header names used here
CanonicalKey(name) ==
    IF name = "content-type" THEN "Content-Type" ELSE name

\* w.Header().Set(k, v)
HeaderSet(w, k, v) ==
    [w EXCEPT !.header =
        [n \in (DOMAIN w.header) \cup {CanonicalKey(k)} |->
            IF n = CanonicalKey(k) THEN v ELSE w.header[n]]]

\* w.WriteHeader(status)
WriteHeader(w, status) ==
    [w EXCEPT !.wroteHeader =
        Append(@, [status |-> status, header |-> w.header])]

\* a write of one piece to w
WriterWrite(w, piece) == [w EXCEPT !.body = Append(@, piece)]

\* NewResponse (lines 182-188)
NewResponse(w) ==
    [writer |-> w, headerWritten |-> FALSE, status |-> StatusOK,
     headers |-> NoHeaders]

\* Header (lines 190-195)
Header(r, header, value) ==
    IF ~r.headerWritten
    THEN [r EXCEPT !.headers =
            [n \in (DOMAIN r.headers) \cup {header} |->
                IF n = header THEN value ELSE r.headers[n]]]
    ELSE r

\* strconv.Atoi on a string of characters: an optional sign and decimal
\* digits give the number, anything else gives 0 (and an error)
DigitValue(c) ==
    CASE c = "0" -> 0 [] c = "1" -> 1 [] c = "2" -> 2 [] c = "3" -> 3
      [] c = "4" -> 4 [] c = "5" -> 5 [] c = "6" -> 6 [] c = "7" -> 7
      [] c = "8" -> 8 [] c = "9" -> 9 [] OTHER -> -1

RECURSIVE DigitsValue(_, _)
DigitsValue(str, acc) ==
    IF str = <<>> THEN acc
    ELSE DigitsValue(Tail(str), 10 * acc + DigitValue(Head(str)))

Atoi(str) ==
    LET signed == str # <<>> /\ Head(str) \in {"+", "-"}
        digits == IF signed THEN Tail(str) ELSE str
    IN  IF digits = <<>> \/ \E i \in 1..Len(digits) : DigitValue(digits[i]) < 0
        THEN 0
        ELSE IF signed /\ Head(str) = "-" THEN 0 - DigitsValue(digits, 0)
        ELSE DigitsValue(digits, 0)

\* Status (lines 197-201): the status is stored whether or not the headers
\* were written
Status(r, HTTPStatus) == [r EXCEPT !.status = Atoi(HTTPStatus)]

\* the loop of writeHeaders (lines 205-207) over r.headers, in the order
\* the range over the map happens to take
RECURSIVE SetAll(_, _, _)
SetAll(w, headers, order) ==
    IF order = <<>> THEN w
    ELSE SetAll(HeaderSet(w, Head(order), headers[Head(order)]), headers, Tail(order))

\* the orders a range over the map may take
Orders(headers) ==
    {o \in [1..Cardinality(DOMAIN headers) -> DOMAIN headers] :
        \A i, j \in DOMAIN o : i # j => o[i] # o[j]}

\* a plausible slip: writeHeaders without its test of headerWritten
writeHeadersUnguarded(r, order) ==
    [r EXCEPT !.writer = WriteHeader(SetAll(r.writer, r.headers, order), r.status),
              !.headerWritten = TRUE]

\* a plausible slip: writeHeaders that does not set headerWritten
writeHeadersNoFlag(r, order) ==
    IF ~r.headerWritten
    THEN [r EXCEPT !.writer = WriteHeader(SetAll(r.writer, r.headers, order), r.status)]
    ELSE r

\* writeHeaders (lines 203-211)
writeHeaders(r, order) ==
    IF ~r.headerWritten
    THEN [r EXCEPT !.writer = WriteHeader(SetAll(r.writer, r.headers, order), r.status),
                   !.headerWritten = TRUE]
    ELSE r

\* r.headers["Transfer-Encoding"] == "chunked" (line 215)
IsChunked(r) ==
    "Transfer-Encoding" \in DOMAIN r.headers /\ r.headers["Transfer-Encoding"] = "chunked"

\* End (lines 213-218)
End(r, order) ==
    LET r1 == writeHeaders(r, order)
    IN  IF IsChunked(r1)
        THEN [r1 EXCEPT !.writer = WriterWrite(@, [kind |-> "last"])]
        ELSE r1

\* json.NewEncoder(w).Encode(v): the encoding is written in one piece, and
\* nothing is written when v cannot be encoded
Encode(w, v) ==
    IF v = "unencodable" THEN w ELSE WriterWrite(w, [kind |-> "json", v |-> v])

\* a plausible slip: Json that flushes the headers before it records the
\* Content-Type
JsonFlushesFirst(r, v, order) ==
    LET r1 == writeHeaders(r, SelectSeq(order, LAMBDA n : n \in DOMAIN r.headers))
        r2 == Header(r1, "Content-Type", "application/json")
    IN  [r2 EXCEPT !.writer = Encode(@, v)]

\* Json (lines 220-224)
Json(r, v, order) ==
    LET r1 == Header(r, "Content-Type", "application/json")
        r2 == writeHeaders(r1, order)
    IN  [r2 EXCEPT !.writer = Encode(@, v)]

\* lines 236-238: the length line, the data and the closing separator
WriteChunk(w, data) ==
    WriterWrite(WriterWrite(WriterWrite(w,
        [kind |-> "size", n |-> Len(data)]),
        [kind |-> "data", bytes |-> data]),
        [kind |-> "crlf"])

\* a plausible slip: Write without its test of len(data), so that empty data
\* is framed as a chunk of length zero
WriteFramesEmpty(r, data, order) ==
    LET r1 == IF ~r.headerWritten
              THEN writeHeaders(Header(r, "Transfer-Encoding", "chunked"), order)
              ELSE r
    IN  [r1 EXCEPT !.writer = WriteChunk(@, data)]

\* Write (lines 226-240)
Write(r, data, order) ==
    LET r1 == IF ~r.headerWritten
              THEN writeHeaders(Header(r, "Transfer-Encoding", "chunked"), order)
              ELSE r
    IN  IF Len(data) = 0 THEN r1
        ELSE [r1 EXCEPT !.writer = WriteChunk(@, data)]

\* the arguments the calls are made with
HeaderInputs ==
    { <<"X-Id", "1">>, <<"content-type", "text/plain">>,
      <<"Transfer-Encoding", "chunked">> }
StatusInputs == { <<"4", "0", "4">>, <<"2", "0", "1">>, <<"o", "k">> }
JsonInputs == { "user", "unencodable" }
WriteInputs == { <<>>, <<"h", "i">> }

\* the headers a flush of the call would range over
OrdersFor(r, added) ==
    Orders([n \in (DOMAIN r.headers) \cup added |-> ""])

RespIdle ==
    /\ resp = NewResponse(NewWriter)
    /\ respCalls = <<>>
    /\ respArg = <<>>

MadeCall(name) ==
    /\ Len(respCalls) < MaxCalls
    /\ respCalls' = Append(respCalls, name)
    /\ UNCHANGED <<matchVars, serverVars, reqVars, regVars, repoVars, lockVars,
                   lifeVars>>

CallHeader ==
    \E in \in HeaderInputs :
        resp' = Header(resp, in[1], in[2]) /\ respArg' = in /\ MadeCall("Header")

CallStatus ==
    \E str \in StatusInputs :
        resp' = Status(resp, str) /\ respArg' = str /\ MadeCall("Status")

CallJson ==
    \E v \in JsonInputs :
        \E order \in OrdersFor(resp, IF resp.headerWritten THEN {} ELSE {"Content-Type"}) :
            resp' = Json(resp, v, order) /\ respArg' = v /\ MadeCall("Json")

CallWrite ==
    \E data \in WriteInputs :
        \E order \in OrdersFor(resp, IF resp.headerWritten THEN {} ELSE {"Transfer-Encoding"}) :
            resp' = Write(resp, data, order) /\ respArg' = data /\ MadeCall("Write")

CallEnd ==
    \E order \in OrdersFor(resp, {}) :
        resp' = End(resp, order) /\ respArg' = <<>> /\ MadeCall("End")

(***************************************************************************)
(* The UserRepository (main.go lines 21-59) and goroutines calling it.     *)
(***************************************************************************)
Callers == 1..NumCallers

\* NewUserRepository (lines 26-34)
SeedUsers ==
    << [ID |-> 1, Name |-> "Pavan Illa", Phone |-> "9381122977", Age |-> 24],
       [ID |-> 2, Name |-> "John Doe", Phone |-> "9381122988", Age |-> 28],
       [ID |-> 3, Name |-> "Peter Griffin", Phone |-> "8978987899", Age |-> 44] >>

\* the zero value User{}
ZeroUser == [ID |-> 0, Name |-> "", Phone |-> "", Age |-> 0]

\* the user a caller of Add passes in, as decoded from a request body
NewUsers == { [ID |-> 0, Name |-> "Teja", Phone |-> "123", Age |-> 30] }

\* the ids GetByID is called with
LookupIds == {1, 4}

NoReturn == [kind |-> "none"]

RepoIdle ==
    /\ users = SeedUsers
    /\ repoMu = [writer |-> 0, readers |-> {}]
    /\ cpc = [c \in Callers |-> "idle"]
    /\ cUser = [c \in Callers |-> ZeroUser]
    /\ cRet = [c \in Callers |-> NoReturn]

\* a plausible slip: Add taking no exclusive lock
CanLockAlways == TRUE

\* sync.RWMutex: Lock proceeds when no goroutine holds the mutex
CanLock == repoMu.writer = 0 /\ repoMu.readers = {}

\* sync.RWMutex: RLock proceeds when no writer holds the mutex
CanRLock == repoMu.writer = 0

RepoFrame ==
    UNCHANGED <<matchVars, serverVars, reqVars, regVars, respVars, lockVars, lifeVars>>

\* Add, line 54: ur.mu.Lock()
AddLock(c) ==
    \E user \in NewUsers :
        /\ cpc[c] = "idle"
        /\ CanLock
        /\ repoMu' = [repoMu EXCEPT !.writer = c]
        /\ cUser' = [cUser EXCEPT ![c] = user]
        /\ cpc' = [cpc EXCEPT ![c] = "add.assign"]
        /\ UNCHANGED <<users, cRet>>
        /\ RepoFrame

\* Add, line 56: user.ID = len(ur.users)+1
AddAssign(c) ==
    /\ cpc[c] = "add.assign"
    /\ cUser' = [cUser EXCEPT ![c].ID = Len(users) + 1]
    /\ cpc' = [cpc EXCEPT ![c] = "add.append"]
    /\ UNCHANGED <<users, repoMu, cRet>>
    /\ RepoFrame

\* Add, line 57: ur.users = append(ur.users, user)
AddAppend(c) ==
    /\ cpc[c] = "add.append"
    /\ users' = Append(users, cUser[c])
    /\ cpc' = [cpc EXCEPT ![c] = "add.return"]
    /\ UNCHANGED <<repoMu, cUser, cRet>>
    /\ RepoFrame

\* Add, lines 58 and 55: return user, then the deferred ur.mu.Unlock()
AddReturn(c) ==
    /\ cpc[c] = "add.return"
    /\ cRet' = [cRet EXCEPT ![c] = [kind |-> "Add", user |-> cUser[c]]]
    /\ repoMu' = [repoMu EXCEPT !.writer = IF @ = c THEN 0 ELSE @]
    /\ cpc' = [cpc EXCEPT ![c] = "done"]
    /\ UNCHANGED <<users, cUser>>
    /\ RepoFrame

\* GetAll, line 37: ur.mu.RLock()
GetAllRLock(c) ==
    /\ cpc[c] = "idle"
    /\ CanRLock
    /\ repoMu' = [repoMu EXCEPT !.readers = @ \cup {c}]
    /\ cpc' = [cpc EXCEPT ![c] = "getall.read"]
    /\ UNCHANGED <<users, cUser, cRet>>
    /\ RepoFrame

\* GetAll, lines 39 and 38: return ur.users, then the deferred RUnlock
GetAllReturn(c) ==
    /\ cpc[c] = "getall.read"
    /\ cRet' = [cRet EXCEPT ![c] = [kind |-> "GetAll", users |-> users]]
    /\ repoMu' = [repoMu EXCEPT !.readers = @ \ {c}]
    /\ cpc' = [cpc EXCEPT ![c] = "done"]
    /\ UNCHANGED <<users, cUser>>
    /\ RepoFrame

\* GetByID, line 43: ur.mu.RLock(); the id asked for is kept in cUser.ID
GetByIDRLock(c) ==
    \E id \in LookupIds :
        /\ cpc[c] = "idle"
        /\ CanRLock
        /\ repoMu' = [repoMu EXCEPT !.readers = @ \cup {c}]
        /\ cUser' = [cUser EXCEPT ![c].ID = id]
        /\ cpc' = [cpc EXCEPT ![c] = "getbyid.scan"]
        /\ UNCHANGED <<users, cRet>>
        /\ RepoFrame

\* the loop of GetByID (lines 45-50) from position i on
RECURSIVE ScanFrom(_, _, _)
ScanFrom(list, id, i) ==
    IF i > Len(list) THEN [kind |-> "GetByID", user |-> ZeroUser, found |-> FALSE]
    ELSE IF list[i].ID = id THEN [kind |-> "GetByID", user |-> list[i], found |-> TRUE]
    ELSE ScanFrom(list, id, i + 1)

\* GetByID, lines 45-50 and 44: the scan, then the deferred RUnlock
GetByIDReturn(c) ==
    /\ cpc[c] = "getbyid.scan"
    /\ cRet' = [cRet EXCEPT ![c] = ScanFrom(users, cUser[c].ID, 1)]
    /\ repoMu' = [repoMu EXCEPT !.readers = @ \ {c}]
    /\ cpc' = [cpc EXCEPT ![c] = "done"]
    /\ UNCHANGED <<users, cUser>>
    /\ RepoFrame

(***************************************************************************)
(* Route registration: addRoute, Get, Post, Put, Delete, Any.              *)
(***************************************************************************)
\* append(s.routes[method], route): a method without an entry gets one
AppendRoute(table, method, route) ==
    [m \in (DOMAIN table) \cup {method} |->
        IF m = method
        THEN Append(IF m \in DOMAIN table THEN table[m] ELSE <<>>, route)
        ELSE table[m]]

\* lines 101-107, under s.mu.Lock()
addRoute(method, path, handler) ==
    routes' = AppendRoute(routes, method, [path |-> path, handler |-> handler])

\* lines 109-123
Get(route, handler) == addRoute(MethodGet, route, handler)
Post(route, handler) == addRoute(MethodPost, route, handler)
Put(route, handler) == addRoute(MethodPut, route, handler)
Delete(route, handler) == addRoute(MethodDelete, route, handler)

\* the patterns the registering goroutine draws from: "/u/:i" and "/u/a"
Patterns ==
    { <<"/", "u", "/", ":", "i">>, <<"/", "u", "/", "a">> }

RegIdle ==
    /\ regPc = "idle"
    /\ regCall = [op |-> "none", path |-> <<>>, handler |-> 0]
    /\ regBase = NoRoutes
    /\ regCount = 0

\* the bookkeeping of a registration call: each call registers a handler of
\* its own, numbered by the order of the calls
BeginCall(op, path, next) ==
    /\ regPc = "idle"
    /\ regCount < MaxRegs
    /\ regCall' = [op |-> op, path |-> path, handler |-> regCount + 1]
    /\ regBase' = routes
    /\ regCount' = regCount + 1
    /\ regPc' = next
    /\ UNCHANGED <<workerPool, reqVars, outsideServer>>

CallGet ==
    \E p \in Patterns : BeginCall("Get", p, "idle") /\ Get(p, regCount + 1)

CallPost ==
    \E p \in Patterns : BeginCall("Post", p, "idle") /\ Post(p, regCount + 1)

CallPut ==
    \E p \in Patterns : BeginCall("Put", p, "idle") /\ Put(p, regCount + 1)

CallDelete ==
    \E p \in Patterns : BeginCall("Delete", p, "idle") /\ Delete(p, regCount + 1)

\* Any (lines 125-130) makes four calls, each taking and leaving the lock:
\* line 126
AnyGet ==
    \E p \in Patterns : BeginCall("Any", p, "anyPost") /\ Get(p, regCount + 1)

\* line 127
AnyPost ==
    /\ regPc = "anyPost"
    /\ Post(regCall.path, regCall.handler)
    /\ regPc' = "anyPut"
    /\ UNCHANGED <<regCall, regBase, regCount, workerPool, reqVars, outsideServer>>

\* line 128
AnyPut ==
    /\ regPc = "anyPut"
    /\ Put(regCall.path, regCall.handler)
    /\ regPc' = "anyDelete"
    /\ UNCHANGED <<regCall, regBase, regCount, workerPool, reqVars, outsideServer>>

\* a plausible slip: Any without its last line
AnyDeleteMissing ==
    /\ regPc = "anyDelete"
    /\ regPc' = "idle"
    /\ UNCHANGED <<routes, regCall, regBase, regCount, workerPool, reqVars, outsideServer>>

\* line 129, after which Any returns
AnyDelete ==
    /\ regPc = "anyDelete"
    /\ Delete(regCall.path, regCall.handler)
    /\ regPc' = "idle"
    /\ UNCHANGED <<regCall, regBase, regCount, workerPool, reqVars, outsideServer>>

Register ==
    \/ CallGet
    \/ CallPost
    \/ CallPut
    \/ CallDelete
    \/ AnyGet
    \/ AnyPost
    \/ AnyPut
    \/ AnyDelete

(***************************************************************************)
(* The routes main registers before it starts the listener (main.go lines  *)
(* 67-115); the handlers are numbered 1 to 3 in the order of registration. *)
(***************************************************************************)
GetAllUsersPath ==
    <<"/", "g", "e", "t", "-", "a", "l", "l", "-", "u", "s", "e", "r", "s">>
GetUserPattern ==
    <<"/", "g", "e", "t", "-", "u", "s", "e", "r", "/", ":", "u", "s", "e", "r", "I", "d">>
AddStudentPath ==
    <<"/", "a", "d", "d", "-", "s", "t", "u", "d", "e", "n", "t">>

MainRoutes ==
    AppendRoute(
        AppendRoute(
            AppendRoute(NoRoutes, MethodGet, [path |-> GetAllUsersPath, handler |-> 1]),
            MethodGet, [path |-> GetUserPattern, handler |-> 2]),
        MethodPost, [path |-> AddStudentPath, handler |-> 3])

\* the requests sent to the demo server: GET /get-user/1, GET /users,
\* DELETE /get-user/1
GetUser1Path == <<"/", "g", "e", "t", "-", "u", "s", "e", "r", "/", "1">>
UsersPath == <<"/", "u", "s", "e", "r", "s">>

GateInputs ==
    { <<MethodGet, GetUser1Path>>, <<MethodGet, UsersPath>>,
      <<MethodDelete, GetUser1Path>> }

\* the requests sent while routes are being registered
RouteInputs ==
    { <<MethodGet, <<"/", "u", "/", "a">> >>, <<MethodGet, <<"/", "u", "/", "b">> >>,
      <<MethodPatch, <<"/", "u", "/", "a">> >> }

MatchIdle ==
    /\ mPattern = <<>>
    /\ mPath = <<>>
    /\ mPc = "off"
    /\ mResult = [match |-> FALSE, skipped |-> FALSE, params |-> EmptyParams]

\* the demo server once main has registered its routes
Init ==
    /\ routes = MainRoutes
    /\ workerPool = 0
    /\ ReqIdle
    /\ regPc = "idle"
    /\ regCall = [op |-> "Post", path |-> AddStudentPath, handler |-> 3]
    /\ regBase = NoRoutes
    /\ regCount = 3
    /\ MatchIdle
    /\ RespIdle
    /\ RepoIdle
    /\ LockIdle
    /\ LifeIdle

Next ==
    \E r \in Requests :
        \/ \E in \in GateInputs : Arrive(r, in[1], in[2])
        \/ handleRequest(r)

\* requests against the routes of main
Spec == Init /\ [][Next]_vars

\* lines 60-97 seen from outside: a request that has read the routes goes on
\* to a handler or to a 404.  One of MethodNotFound, InvokeHandler and
\* PathNotFound can always be taken there, and a step of a request that moves
\* the request on is a step of one of them.
Dispatch(r) ==
    /\ pc[r] = "route"
    /\ \E next \in {"handler", "release"} : pc' = [pc EXCEPT ![r] = next]

\* one step of request r, with the three steps of the dispatch taken as one
Advance(r) ==
    \/ Acquire(r)
    \/ ReadRoutes(r)
    \/ Dispatch(r)
    \/ HandlerReturn(r)
    \/ HandlerPanic(r)
    \/ Release(r)

\* the requests against the routes of main, numbered in the order in which
\* they arrive
LiveNext ==
    \E r \in Requests :
        \/ /\ \A q \in Requests : q < r => pc[q] # "idle"
           /\ \E in \in GateInputs : Arrive(r, in[1], in[2])
        \/ handleRequest(r)

\* the goroutine of a request that can take a step is scheduled in the end,
\* and a handler that was called returns or panics
SpecLive ==
    Init /\ [][LiveNext]_vars /\ \A r \in Requests : WF_pc(Advance(r))

\* a new server, on which routes are registered while a request is served
RoutesInit ==
    /\ ServerNew
    /\ ReqIdle
    /\ RegIdle
    /\ RespIdle
    /\ RepoIdle
    /\ MatchIdle
    /\ RespIdle
    /\ RepoIdle
    /\ LockIdle
    /\ LifeIdle

LookupRequests == {1}

RoutesNext ==
    \/ Register
    \/ \E r \in LookupRequests :
        \/ \E in \in RouteInputs : Arrive(r, in[1], in[2])
        \/ handleRequest(r)

SpecRoutes == RoutesInit /\ [][RoutesNext]_vars

(***************************************************************************)
(* addRoute and the lookup of handleRequest with s.mu, one step at a time. *)
(* The statement of line 106 is not atomic: between its first write and    *)
(* its last the table holds a route that is not yet whole, which is        *)
(* modelled as a route whose handler is still nil (0).                     *)
(***************************************************************************)
\* a plausible slip: the lookup made without s.mu.RLock()
ServerCanRLockAlways == TRUE

\* sync.RWMutex: Lock proceeds when no goroutine holds the mutex
ServerCanLock == ~srvMu.writer /\ srvMu.readers = {}

\* sync.RWMutex: RLock proceeds when no writer holds the mutex
ServerCanRLock == ~srvMu.writer

OffServer == <<matchVars, respVars, repoVars, lifeVars>>

\* line 102: Get has called addRoute, which takes s.mu.Lock()
AddRouteLock ==
    /\ regPc = "idle"
    /\ regCount < MaxRegs
    /\ ServerCanLock
    /\ \E p \in Patterns :
          regCall' = [op |-> "Get", path |-> p, handler |-> regCount + 1]
    /\ regBase' = routes
    /\ regCount' = regCount + 1
    /\ regPc' = "append"
    /\ srvMu' = [srvMu EXCEPT !.writer = TRUE]
    /\ UNCHANGED <<routes, workerPool, reqVars, addDone, OffServer>>

\* line 106, begun: the list of the method has grown by a route that is not
\* yet whole
AddRouteGrow ==
    /\ regPc = "append"
    /\ routes' = AppendRoute(routes, MethodGet,
                              [path |-> regCall.path, handler |-> 0])
    /\ regPc' = "fill"
    /\ UNCHANGED <<regCall, regBase, regCount, workerPool, reqVars, lockVars, OffServer>>

\* line 106, finished: the route is whole
AddRouteFill ==
    /\ regPc = "fill"
    /\ routes' = [routes EXCEPT ![MethodGet] =
                     [@ EXCEPT ![Len(@)] = [path |-> regCall.path,
                                            handler |-> regCall.handler]]]
    /\ regPc' = "unlock"
    /\ UNCHANGED <<regCall, regBase, regCount, workerPool, reqVars, lockVars, OffServer>>

\* line 103: the deferred s.mu.Unlock(), and the return of addRoute
AddRouteUnlock ==
    /\ regPc = "unlock"
    /\ srvMu' = [srvMu EXCEPT !.writer = FALSE]
    /\ addDone' = addDone \cup {[method |-> MethodGet,
                                   route |-> [path |-> regCall.path,
                                              handler |-> regCall.handler]]}
    /\ regPc' = "idle"
    /\ UNCHANGED <<routes, regCall, regBase, regCount, workerPool, reqVars, OffServer>>

\* line 56: s.mu.RLock()
RLock(r) ==
    /\ pc[r] = "lookup"
    /\ ServerCanRLock
    /\ srvMu' = [srvMu EXCEPT !.readers = @ \cup {r}]
    /\ pc' = [pc EXCEPT ![r] = "locked"]
    /\ UNCHANGED <<reqMethod, reqPath, snap, matchedIdx, invoked, reqParams,
                   notFound, panicked, acquired, released>>
    /\ UNCHANGED <<serverVars, regVars, addDone, OffServer>>

\* line 57: routes, ok := s.routes[r.Method]
ReadLocked(r) ==
    /\ pc[r] = "locked"
    /\ snap' = [snap EXCEPT ![r] = RoutesOf(routes, reqMethod[r])]
    /\ pc' = [pc EXCEPT ![r] = "unlock"]
    /\ UNCHANGED <<reqMethod, reqPath, matchedIdx, invoked, reqParams,
                   notFound, panicked, acquired, released>>
    /\ UNCHANGED <<serverVars, regVars, lockVars, OffServer>>

\* line 58: s.mu.RUnlock()
RUnlock(r) ==
    /\ pc[r] = "unlock"
    /\ srvMu' = [srvMu EXCEPT !.readers = @ \ {r}]
    /\ pc' = [pc EXCEPT ![r] = "route"]
    /\ UNCHANGED <<reqMethod, reqPath, snap, matchedIdx, invoked, reqParams,
                   notFound, panicked, acquired, released>>
    /\ UNCHANGED <<serverVars, regVars, addDone, OffServer>>

LockedInit ==
    /\ ServerNew
    /\ ReqIdle
    /\ RegIdle
    /\ LockIdle
    /\ LifeIdle
    /\ MatchIdle
    /\ RespIdle
    /\ RepoIdle

LockedRequests == {1, 2}

LockedNext ==
    \/ AddRouteLock
    \/ AddRouteGrow
    \/ AddRouteFill
    \/ AddRouteUnlock
    \/ \E r \in LockedRequests :
          \/ \E in \in RouteInputs : Arrive(r, in[1], in[2])
          \/ Acquire(r)
          \/ RLock(r)
          \/ ReadLocked(r)
          \/ RUnlock(r)
          \/ MethodNotFound(r)
          \/ InvokeHandler(r)
          \/ PathNotFound(r)
          \/ HandlerReturn(r)
          \/ HandlerPanic(r)
          \/ Release(r)

SpecLocked == LockedInit /\ [][LockedNext]_vars

(***************************************************************************)
(* The process of main.go from its select on: the main goroutine, the      *)
(* goroutine that calls app.Listen, the signals, the timer of the context  *)
(* and the requests the listener accepts.  http.Server is modelled by what *)
(* its documentation promises: ListenAndServe returns once it failed or    *)
(* Shutdown was called; Shutdown closes the listener and returns nil when  *)
(* no request is under way, or the error of the context when that is done. *)
(* Nothing happens after the process has ended.                            *)
(***************************************************************************)
MainRequests == {1, 2}

\* the requests whose connection is active
InFlight == {r \in MainRequests : pc[r] \notin {"idle", "done"}}

LifeFrame ==
    UNCHANGED <<matchVars, serverVars, reqVars, regVars, respVars, repoVars, lockVars>>

\* SIGINT, SIGQUIT or SIGTERM is delivered to sigChan, which buffers one
Signal ==
    /\ procExit = "running"
    /\ sigChan = 0
    /\ sigChan' = 1
    /\ UNCHANGED <<mainPc, listenPc, srvServer, shutdownChan, listener, ctx,
                   shutdownOn, shutdownErr, procExit>>
    /\ LifeFrame

\* lines 128-136: case <-sigChan, then the context is made
MainRecvSignal ==
    /\ procExit = "running"
    /\ mainPc = "select"
    /\ sigChan > 0
    /\ sigChan' = sigChan - 1
    /\ mainPc' = "shutdown"
    /\ ctx' = "live"
    /\ UNCHANGED <<listenPc, srvServer, shutdownChan, listener, shutdownOn,
                   shutdownErr, procExit>>
    /\ LifeFrame

\* lines 128-136: case <-shutdownChan, then the context is made
MainRecvClosed ==
    /\ procExit = "running"
    /\ mainPc = "select"
    /\ shutdownChan > 0
    /\ mainPc' = "shutdown"
    /\ ctx' = "live"
    /\ UNCHANGED <<listenPc, srvServer, sigChan, shutdownChan, listener,
                   shutdownOn, shutdownErr, procExit>>
    /\ LifeFrame

\* a plausible slip: context.Background() given to Shutdown
NoDeadline == FALSE

\* context.WithTimeout (line 135): the context has a deadline
HasDeadline == TRUE

\* the five seconds of line 135 have passed
CtxExpires ==
    /\ procExit = "running"
    /\ HasDeadline
    /\ ctx = "live"
    /\ ctx' = "done"
    /\ UNCHANGED <<mainPc, listenPc, srvServer, sigChan, shutdownChan, listener,
                   shutdownOn, shutdownErr, procExit>>
    /\ LifeFrame

\* line 138 and Shutdown (restFramework.go lines 132-134): s.server is read
\* with no synchronisation with Listen; the call on a nil *http.Server
\* panics, and the panic ends the process
CallShutdown ==
    /\ procExit = "running"
    /\ mainPc = "shutdown"
    /\ IF srvServer = "nil"
       THEN /\ shutdownOn' = "nil"
            /\ mainPc' = "panicked"
            /\ procExit' = "panicked"
            /\ UNCHANGED listener
       ELSE /\ shutdownOn' = "server"
            /\ mainPc' = "waiting"
            /\ listener' = IF listener = "open" THEN "closed" ELSE listener
            /\ UNCHANGED procExit
    /\ UNCHANGED <<listenPc, srvServer, sigChan, shutdownChan, ctx, shutdownErr>>
    /\ LifeFrame

\* http.Server.Shutdown returns nil: no request is under way
ShutdownReturnsNil ==
    /\ procExit = "running"
    /\ mainPc = "waiting"
    /\ InFlight = {}
    /\ shutdownErr' = "nil"
    /\ mainPc' = "stopped"
    /\ UNCHANGED <<listenPc, srvServer, sigChan, shutdownChan, listener, ctx,
                   shutdownOn, procExit>>
    /\ LifeFrame

\* http.Server.Shutdown returns ctx.Err(): requests are under way and the
\* context is done
ShutdownDeadline ==
    /\ procExit = "running"
    /\ mainPc = "waiting"
    /\ InFlight # {}
    /\ ctx = "done"
    /\ shutdownErr' = "deadline"
    /\ mainPc' = "stopped"
    /\ UNCHANGED <<listenPc, srvServer, sigChan, shutdownChan, listener, ctx,
                   shutdownOn, procExit>>
    /\ LifeFrame

\* lines 139-143: main prints and returns, which ends the process and every
\* goroutine with it
MainReturn ==
    /\ procExit = "running"
    /\ mainPc = "stopped"
    /\ mainPc' = "done"
    /\ procExit' = "returned"
    /\ UNCHANGED <<listenPc, srvServer, sigChan, shutdownChan, listener, ctx,
                   shutdownOn, shutdownErr>>
    /\ LifeFrame

\* the steps of the main goroutine
MainStep ==
    \/ MainRecvSignal
    \/ MainRecvClosed
    \/ CallShutdown
    \/ ShutdownReturnsNil
    \/ ShutdownDeadline
    \/ MainReturn

\* Listen, lines 38-46: s.server = &http.Server{...}
ListenCreate ==
    /\ procExit = "running"
    /\ listenPc = "start"
    /\ srvServer' = "set"
    /\ listenPc' = "created"
    /\ UNCHANGED <<mainPc, sigChan, shutdownChan, listener, ctx, shutdownOn,
                   shutdownErr, procExit>>
    /\ LifeFrame

\* Listen, line 47: ListenAndServe binds the port and serves
ListenBind ==
    /\ procExit = "running"
    /\ listenPc = "created"
    /\ shutdownOn # "server"
    /\ listener' = "open"
    /\ listenPc' = "serving"
    /\ UNCHANGED <<mainPc, srvServer, sigChan, shutdownChan, ctx, shutdownOn,
                   shutdownErr, procExit>>
    /\ LifeFrame

\* Listen, line 47: ListenAndServe returns an error at once: the port cannot
\* be bound, or Shutdown was called already
ListenFails ==
    /\ procExit = "running"
    /\ listenPc = "created"
    /\ listenPc' = "returned"
    /\ UNCHANGED <<mainPc, srvServer, sigChan, shutdownChan, listener, ctx,
                   shutdownOn, shutdownErr, procExit>>
    /\ LifeFrame

\* Listen, line 47: ListenAndServe returns ErrServerClosed after Shutdown
ServeReturns ==
    /\ procExit = "running"
    /\ listenPc = "serving"
    /\ shutdownOn = "server"
    /\ listenPc' = "returned"
    /\ UNCHANGED <<mainPc, srvServer, sigChan, shutdownChan, listener, ctx,
                   shutdownOn, shutdownErr, procExit>>
    /\ LifeFrame

\* main.go lines 119-121: the error is never nil, so shutdownChan is closed
CloseShutdownChan ==
    /\ procExit = "running"
    /\ listenPc = "returned"
    /\ shutdownChan' = shutdownChan + 1
    /\ listenPc' = "done"
    /\ UNCHANGED <<mainPc, srvServer, sigChan, listener, ctx, shutdownOn,
                   shutdownErr, procExit>>
    /\ LifeFrame

\* the steps of the goroutine of lines 117-123
ListenStep ==
    \/ ListenCreate
    \/ ListenBind
    \/ ListenFails
    \/ ServeReturns
    \/ CloseShutdownChan

\* main has registered its routes, started the goroutine of line 117 and
\* called signal.Notify
MainInit ==
    /\ routes = MainRoutes
    /\ workerPool = 0
    /\ ReqIdle
    /\ regPc = "idle"
    /\ regCall = [op |-> "Post", path |-> AddStudentPath, handler |-> 3]
    /\ regBase = NoRoutes
    /\ regCount = 3
    /\ MatchIdle
    /\ RespIdle
    /\ RepoIdle
    /\ LockIdle
    /\ mainPc = "select"
    /\ listenPc = "start"
    /\ srvServer = "nil"
    /\ sigChan = 0
    /\ shutdownChan = 0
    /\ listener = "none"
    /\ ctx = "none"
    /\ shutdownOn = "none"
    /\ shutdownErr = "none"
    /\ procExit = "running"

MainNext ==
    \/ Signal
    \/ CtxExpires
    \/ MainStep
    \/ ListenStep
    \/ \E r \in MainRequests :
          \/ /\ listener = "open"
             /\ procExit = "running"
             /\ \E in \in GateInputs : Arrive(r, in[1], in[2])
          \/ procExit = "running" /\ handleRequest(r)

\* the main goroutine is scheduled in the end and the timer of the context
\* fires; a handler need not return, the listener goroutine need not run
SpecMain ==
    MainInit /\ [][MainNext]_vars /\ WF_vars(MainStep) /\ WF_vars(CtxExpires)

(***************************************************************************)
(* A server whose GET routes bind parameters before a literal segment: a   *)
(* route can fail after it has bound one.  Two requests are served at once. *)
(***************************************************************************)
ParamPatterns ==
    { <<"/", ":", "i", "/", "a">>, <<"/", "u", "/", ":", "j">>,
      <<"/", ":", "i", "/", ":", "j">> }

\* s.routes after two calls of Get, with handlers 1 and 2
ParamTables ==
    { AppendRoute(AppendRoute(NoRoutes, MethodGet, [path |-> p1, handler |-> 1]),
                  MethodGet, [path |-> p2, handler |-> 2]) :
        p1 \in ParamPatterns, p2 \in ParamPatterns }

ParamInputs ==
    { <<MethodGet, <<"/", "u", "/", "b">> >>, <<MethodGet, <<"/", "u", "/", "a">> >>,
      <<MethodGet, <<"/", "v", "/", "b">> >>, <<MethodPost, <<"/", "u", "/", "b">> >> }

ParamRequests == {1, 2}

ParamsInit ==
    /\ routes \in ParamTables
    /\ workerPool = 0
    /\ ReqIdle
    /\ regPc = "idle"
    /\ regCall = [op |-> "Get", path |-> routes[MethodGet][2].path, handler |-> 2]
    /\ regBase = NoRoutes
    /\ regCount = 2
    /\ MatchIdle
    /\ RespIdle
    /\ RepoIdle
    /\ LockIdle
    /\ LifeIdle

ParamsNext ==
    \E r \in ParamRequests :
        \/ \E in \in ParamInputs : Arrive(r, in[1], in[2])
        \/ handleRequest(r)

SpecParams == ParamsInit /\ [][ParamsNext]_vars

(***************************************************************************)
(* The matcher harness: a pattern and a path are drawn, then one loop      *)
(* iteration is applied to them.                                           *)
(***************************************************************************)
NoResult == [match |-> FALSE, skipped |-> FALSE, params |-> EmptyParams]

MatchInit ==
    /\ mPattern \in StringsUpTo(MaxPatternLen)
    /\ mPath \in PathsUpTo(MaxPathLen)
    /\ mPc = "start"
    /\ mResult = NoResult
    /\ ServerNew
    /\ ReqIdle
    /\ RegIdle
    /\ RespIdle
    /\ RepoIdle
    /\ LockIdle
    /\ LifeIdle

MatchStep ==
    /\ mPc = "start"
    /\ mResult' = RouteMatch(mPattern, PathParts(mPath))
    /\ mPc' = "done"
    /\ UNCHANGED <<mPattern, mPath>>
    /\ UNCHANGED <<serverVars, reqVars, regVars, respVars, repoVars, lockVars,
                   lifeVars>>

SpecMatch == MatchInit /\ [][MatchStep]_vars

(***************************************************************************)
(* One Response, on which a handler makes up to MaxCalls calls.            *)
(***************************************************************************)
ResponseInit ==
    /\ RespIdle
    /\ ServerNew
    /\ ReqIdle
    /\ RegIdle
    /\ MatchIdle
    /\ RepoIdle
    /\ LockIdle
    /\ LifeIdle

ResponseNext ==
    \/ CallHeader
    \/ CallStatus
    \/ CallJson
    \/ CallWrite
    \/ CallEnd

SpecResponse == ResponseInit /\ [][ResponseNext]_vars

(***************************************************************************)
(* The UserRepository under concurrent callers.                            *)
(***************************************************************************)
RepoInit ==
    /\ RepoIdle
    /\ ServerNew
    /\ ReqIdle
    /\ RegIdle
    /\ MatchIdle
    /\ RespIdle
    /\ LockIdle
    /\ LifeIdle

RepoNext ==
    \E c \in Callers :
        \/ AddLock(c)
        \/ AddAssign(c)
        \/ AddAppend(c)
        \/ AddReturn(c)
        \/ GetAllRLock(c)
        \/ GetAllReturn(c)
        \/ GetByIDRLock(c)
        \/ GetByIDReturn(c)

SpecRepo == RepoInit /\ [][RepoNext]_vars

(***************************************************************************)
(* Properties of the path matcher.  The segments and the ':' test are      *)
(* restated here, apart from the operators the matcher itself uses.        *)
(***************************************************************************)
PSegs == Split(Trim(mPattern))
QSegs == Split(Trim(mPath))

IsParamSeg(seg) == Len(seg) >= 1 /\ seg[1] = ":"
ParamName(seg) == SubSeq(seg, 2, Len(seg))

LiteralsAgree ==
    \A i \in 1..Len(PSegs) : ~IsParamSeg(PSegs[i]) => PSegs[i] = QSegs[i]

\* the last ':'-segment of the pattern that carries the name of segment i
LastWithName(i) ==
    CHOOSE j \in i..Len(PSegs) :
        /\ IsParamSeg(PSegs[j]) /\ ParamName(PSegs[j]) = ParamName(PSegs[i])
        /\ \A k \in (j + 1)..Len(PSegs) :
              ~(IsParamSeg(PSegs[k]) /\ ParamName(PSegs[k]) = ParamName(PSegs[i]))

\* C5 as stated: with equal segment counts the match succeeds iff every
\* literal segment of the pattern equals the path segment at its position,
\* and every ':'-segment binds its name to the path segment at its position.
C5_EverySegmentBindsItsOwnValue ==
    (mPc = "done" /\ Len(PSegs) = Len(QSegs)) =>
        /\ mResult.match <=> LiteralsAgree
        /\ mResult.match =>
              \A i \in 1..Len(PSegs) : IsParamSeg(PSegs[i]) =>
                  /\ ParamName(PSegs[i]) \in DOMAIN mResult.params
                  /\ mResult.params[ParamName(PSegs[i])] = QSegs[i]

\* C5 amended: with equal segment counts the match succeeds iff every literal
\* segment of the pattern equals the path segment at its position; a
\* ':'-segment never causes a mismatch, and on a match each parameter name is
\* bound to the path segment at the position of the last ':'-segment that
\* carries that name (so to its own segment when the name occurs once), and
\* nothing else is bound.
C5_MatchIffLiteralsAgree ==
    (mPc = "done" /\ Len(PSegs) = Len(QSegs)) =>
        /\ ~mResult.skipped
        /\ mResult.match <=> LiteralsAgree
        /\ mResult.match =>
              /\ DOMAIN mResult.params =
                    {ParamName(PSegs[i]) : i \in {j \in 1..Len(PSegs) : IsParamSeg(PSegs[j])}}
              /\ \A i \in 1..Len(PSegs) : IsParamSeg(PSegs[i]) =>
                    mResult.params[ParamName(PSegs[i])] = QSegs[LastWithName(i)]

\* a match of a pattern that has a literal segment and a named ':'-segment
C5_Witness ==
    /\ mPc = "done" /\ Len(PSegs) = Len(QSegs) /\ mResult.match
    /\ \E i, j \in 1..Len(PSegs) :
          /\ IsParamSeg(PSegs[i]) /\ ParamName(PSegs[i]) # <<>>
          /\ mResult.params[ParamName(PSegs[i])] = QSegs[i]
          /\ ~IsParamSeg(PSegs[j]) /\ PSegs[j] # <<>>

\* C6: a pattern and a path whose segment counts differ never match, and
\* the route is skipped with no parameter bound.
C6_CountMismatchNeverMatches ==
    (mPc = "done" /\ Len(PSegs) # Len(QSegs)) =>
        /\ ~mResult.match
        /\ mResult.skipped
        /\ mResult.params = EmptyParams

\* the pattern's segments are a proper prefix of the path's segments, up to
\* parameters: a prefix matcher would accept it
C6_Witness ==
    /\ mPc = "done" /\ Len(PSegs) < Len(QSegs)
    /\ \A i \in 1..Len(PSegs) : IsParamSeg(PSegs[i]) \/ PSegs[i] = QSegs[i]
    /\ \E i \in 1..Len(PSegs) : IsParamSeg(PSegs[i])
    /\ ~mResult.match

(***************************************************************************)
(* Properties of the worker pool around handleRequest.                     *)
(***************************************************************************)
\* the requests that hold a slot of the pool, and those inside a handler
Holding == {r \in Requests : acquired[r] > released[r]}
Running == {r \in Requests : pc[r] = "handler"}

\* C1: the number of requests that have acquired a slot and not yet released
\* it, and so the number of handlers running at once, never exceeds the
\* capacity of workerPool.
C1_AtMostCapacityInFlight ==
    /\ Cardinality(Holding) <= maxWorkers
    /\ Cardinality(Running) <= maxWorkers
    /\ Running \subseteq Holding
    /\ workerPool = Cardinality(Holding)

\* the pool is full while another request waits to be admitted
C1_Witness ==
    /\ Cardinality(Holding) = maxWorkers
    /\ \E r \in Requests : pc[r] = "acquire"
    /\ \E r \in Holding : pc[r] # "handler"

\* C2: with capacity+1 requests, a request waiting to acquire has started
\* neither its route lookup nor a handler; when capacity handlers are running
\* every other request that arrived is still waiting (or has left), and a
\* request leaves the wait only from a state where fewer than capacity
\* requests hold a slot, that is after a release.
C2_WaitsUntilRelease ==
    /\ [](\A r \in Requests : pc[r] = "acquire" =>
            /\ acquired[r] = 0 /\ snap[r] = NoSnap
            /\ invoked[r] = 0 /\ notFound[r] = 0)
    /\ [](Cardinality(Running) = maxWorkers =>
            \A r \in Requests \ Running : pc[r] \in {"idle", "acquire", "done"})
    /\ [][\A r \in Requests : (pc[r] = "acquire" /\ pc'[r] # "acquire") =>
            /\ Cardinality(Holding) < maxWorkers
            /\ pc'[r] = "lookup"]_vars

\* capacity handlers are running and the remaining request is blocked
C2_Witness ==
    /\ Cardinality(Running) = maxWorkers
    /\ \A r \in Requests \ Running : pc[r] = "acquire"
    /\ \A r \in Requests : reqMethod[r] = "GET" /\ reqPath[r] = GetUser1Path

\* C3: a request that acquired a slot releases exactly that one slot on each
\* exit path of handleRequest (404 for the method, 404 for the path, handler
\* return, handler panic); once every request has left, no slot is occupied.
C3_SlotReleasedOnEveryExit ==
    /\ \A r \in Requests :
          /\ released[r] <= acquired[r] /\ acquired[r] <= 1
          /\ pc[r] = "done" => (acquired[r] = 1 /\ released[r] = 1)
    /\ (\A r \in Requests : pc[r] \in {"idle", "done"}) => workerPool = 0

\* every request has left: one after a panic, one after a return, one with 404
C3_Witness ==
    /\ \A r \in Requests : pc[r] = "done"
    /\ \E r \in Requests : panicked[r]
    /\ \E r \in Requests : invoked[r] # 0 /\ ~panicked[r]
    /\ \E r \in Requests : notFound[r] = 1
    /\ workerPool = 0

(***************************************************************************)
(* Properties of the route table.                                          *)
(***************************************************************************)
SegsOf(str) == Split(Trim(str))

\* pattern P matches path Q: equal segment counts and equal literal segments
Matches(P, Q) ==
    /\ Len(SegsOf(P)) = Len(SegsOf(Q))
    /\ \A i \in 1..Len(SegsOf(P)) :
          ~IsParamSeg(SegsOf(P)[i]) => SegsOf(P)[i] = SegsOf(Q)[i]

\* the bindings of the ':'-segments of P against Q
Bindings(P, Q) ==
    LET ps == SegsOf(P)
        at(n) == {i \in 1..Len(ps) : IsParamSeg(ps[i]) /\ ParamName(ps[i]) = n}
        names == {ParamName(ps[i]) : i \in {j \in 1..Len(ps) : IsParamSeg(ps[j])}}
    IN  [n \in names |-> SegsOf(Q)[CHOOSE i \in at(n) : \A j \in at(n) : j <= i]]

\* the routes registered for the method of request r
Registered(r) == RoutesOf(routes, reqMethod[r]).list

\* the positions of the registered routes that match the path of request r
MatchingIdx(r) ==
    {k \in 1..Len(Registered(r)) : Matches(Registered(r)[k].path, reqPath[r])}

\* C4: the handler invoked for a request is that of the first registered route
\* of its method that matches the path, with that route's bindings, whatever
\* routes registered later match too.
C4_FirstMatchWins ==
    \A r \in Requests : pc[r] = "handler" =>
        /\ matchedIdx[r] \in MatchingIdx(r)
        /\ \A j \in MatchingIdx(r) : matchedIdx[r] <= j
        /\ invoked[r] = Registered(r)[matchedIdx[r]].handler
        /\ reqParams[r] = Bindings(Registered(r)[matchedIdx[r]].path, reqPath[r])

\* the second of three routes is invoked: the first does not match, the third
\* matches as well
C4_Witness ==
    \E r \in Requests :
        /\ pc[r] = "handler"
        /\ Len(snap[r].list) = 3
        /\ matchedIdx[r] = 2
        /\ MatchingIdx(r) = {2, 3}
        /\ invoked[r] = 2

\* s.routes after Get, Post, Put and Delete of one route, in this order
AfterFourCalls(table, route) ==
    AppendRoute(AppendRoute(AppendRoute(AppendRoute(table,
        "GET", route), "POST", route), "PUT", route), "DELETE", route)

\* C9: once Any has returned, s.routes is what Get, Post, Put and Delete of
\* the same pattern and handler make of the table Any was called on: the
\* route is appended for these four methods and for no other, and a request
\* with another method is answered 404 without any handler.
C9_AnyIsGetPostPutDelete ==
    /\ (regPc = "idle" /\ regCall.op = "Any") =>
          routes = AfterFourCalls(regBase,
                      [path |-> regCall.path, handler |-> regCall.handler])
    /\ DOMAIN routes \subseteq {"GET", "POST", "PUT", "DELETE"}
    /\ \A r \in Requests : reqMethod[r] = "PATCH" =>
          /\ pc[r] # "handler" /\ invoked[r] = 0
          /\ pc[r] \in {"release", "done"} => notFound[r] = 1

\* Any has returned on a table that had a route already, and a PATCH request
\* for a path the pattern matches was answered 404
C9_Witness ==
    /\ regPc = "idle" /\ regCall.op = "Any" /\ regBase # NoRoutes
    /\ \E r \in Requests :
          /\ reqMethod[r] = "PATCH" /\ pc[r] = "done" /\ notFound[r] = 1
          /\ Matches(regCall.path, reqPath[r])
          /\ snap[r] = NoSnap

(***************************************************************************)
(* Properties of the Response.                                             *)
(***************************************************************************)
\* the calls that write: each flushes the headers if they were not yet
FlushingCalls == {"Json", "Write", "End"}

\* what the underlying writer was given: its WriteHeader calls and header map
Emitted == resp.writer.wroteHeader

\* C7: once a call of Json, Write or End has flushed the headers, a later
\* Status or Header call (any later call, in fact) changes neither the status
\* nor the header set given to the underlying writer: they stay those that
\* the Response held at the first flush.  A later Header call changes
\* nothing at all, a later Status call only the status field, which is not
\* read again.
C7_NoEffectAfterFlush ==
    /\ [][(~resp.headerWritten /\ resp'.headerWritten) =>
            /\ Len(Emitted') = 1
            /\ Emitted'[1].status = resp'.status
            /\ DOMAIN Emitted'[1].header =
                  {CanonicalKey(n) : n \in DOMAIN resp'.headers}
            /\ \A k \in DOMAIN Emitted'[1].header :
                  \E n \in DOMAIN resp'.headers :
                      CanonicalKey(n) = k /\ resp'.headers[n] = Emitted'[1].header[k]
            /\ resp'.writer.header = Emitted'[1].header]_vars
    /\ [][resp.headerWritten =>
            /\ Emitted' = Emitted
            /\ resp'.writer.header = resp.writer.header
            /\ resp'.headers = resp.headers]_vars
    /\ [][(resp.headerWritten /\ Len(respCalls') > Len(respCalls)) =>
            /\ respCalls'[Len(respCalls')] = "Header" => resp' = resp
            /\ respCalls'[Len(respCalls')] = "Status" =>
                  resp' = [resp EXCEPT !.status = resp'.status]]_vars

\* after the flush Status was called with another code, which the Response
\* stores and the writer never sees
C7_Witness ==
    /\ resp.headerWritten
    /\ \E i, j \in 1..Len(respCalls) :
          i < j /\ respCalls[i] \in FlushingCalls /\ respCalls[j] = "Status"
    /\ \E i \in 1..Len(respCalls) : respCalls[i] = "Header"
    /\ Len(Emitted) = 1
    /\ resp.status # Emitted[1].status

\* C8: over any sequence of calls, the status line and headers are written to
\* the underlying writer exactly once as soon as one of Json, Write and End
\* was called, at the first such call and not before, and headerWritten never
\* goes back from true to false.
C8_HeadersFlushedExactlyOnce ==
    /\ []((\E i \in 1..Len(respCalls) : respCalls[i] \in FlushingCalls) <=>
            Len(Emitted) = 1)
    /\ [](Len(Emitted) <= 1)
    /\ [](resp.headerWritten <=> Len(Emitted) = 1)
    /\ [][resp.headerWritten => resp'.headerWritten]_vars

\* Json, Write and End were all called on one Response
C8_Witness ==
    /\ \A name \in FlushingCalls : \E i \in 1..Len(respCalls) : respCalls[i] = name
    /\ Len(Emitted) = 1
    /\ resp.headerWritten

(***************************************************************************)
(* Properties of the UserRepository.                                       *)
(***************************************************************************)
\* the largest ID among the records of a list
MaxID(list) ==
    CHOOSE n \in {list[i].ID : i \in 1..Len(list)} :
        \A i \in 1..Len(list) : list[i].ID <= n

\* C10: under any interleaving of Add, GetAll and GetByID the record at
\* position i has ID i (so the IDs are distinct), the three seeded users stay
\* in front, every change of the list is the append of a record whose ID is
\* one more than the largest ID before it, and that record is what Add
\* returns.
C10_IdsAreSequential ==
    /\ [](\A i \in 1..Len(users) : users[i].ID = i)
    /\ [](Len(users) >= 3 /\ SubSeq(users, 1, 3) = SeedUsers)
    /\ [][users' # users =>
            \E c \in Callers :
                /\ users' = Append(users, cUser[c])
                /\ cUser[c].ID = MaxID(users) + 1]_vars
    /\ [](\A c \in Callers : cRet[c].kind = "Add" =>
            /\ cRet[c].user.ID \in 4..Len(users)
            /\ users[cRet[c].user.ID] = cRet[c].user)
    /\ [](\A c, d \in Callers :
            (c # d /\ cRet[c].kind = "Add" /\ cRet[d].kind = "Add") =>
                cRet[c].user.ID # cRet[d].user.ID)

\* two Adds returned 4 and 5, and a GetAll that ran between them saw four
\* users
C10_Witness ==
    /\ Len(users) = 5
    /\ \E c, d, e \in Callers :
          /\ cRet[c].kind = "Add" /\ cRet[c].user.ID = 4
          /\ cRet[d].kind = "Add" /\ cRet[d].user.ID = 5
          /\ cRet[e].kind = "GetAll" /\ Len(cRet[e].users) = 4

(***************************************************************************)
(* The worker pool and the requests that are answered 404.                 *)
(***************************************************************************)
\* the request has a method and path that no registered route serves
Unrouted(r) == pc[r] # "idle" /\ MatchingIdx(r) = {}

\* C12 as stated: a request that ends in 404 (no entry for its method, or no
\* pattern that matches) never holds a slot of the worker pool.
C12_NotFoundHoldsNoSlot ==
    \A r \in Requests : Unrouted(r) => r \notin Holding

\* C12 amended: admission wraps the whole of handleRequest, 404 generation
\* included.  A request that ends in 404 acquired one slot before its lookup,
\* holds it during the lookup and the http.NotFound call, invokes no handler,
\* and gives the slot back when it leaves.
C12_NotFoundHoldsOneSlot ==
    \A r \in Requests :
        /\ notFound[r] > 0 =>
              (notFound[r] = 1 /\ acquired[r] = 1 /\ invoked[r] = 0 /\ Unrouted(r))
        /\ (Unrouted(r) /\ pc[r] \in {"lookup", "route", "release"}) => r \in Holding
        /\ (Unrouted(r) /\ pc[r] = "release") => notFound[r] = 1
        /\ (Unrouted(r) /\ pc[r] = "done") => (notFound[r] = 1 /\ r \notin Holding)

\* every slot is held by a request that ends in 404, one of them already
\* answered, while a request for a registered route waits to be admitted
C12_Witness ==
    /\ Cardinality(Holding) = maxWorkers
    /\ \A r \in Holding : Unrouted(r)
    /\ \E r \in Holding : notFound[r] = 1
    /\ \E r \in Requests : pc[r] = "acquire" /\ MatchingIdx(r) # {}

(***************************************************************************)
(* Properties of Write, End and Json on one Response.                      *)
(***************************************************************************)
\* the step is a call of the method, made on the Response
Called(name) ==
    /\ Len(respCalls') = Len(respCalls) + 1
    /\ respCalls'[Len(respCalls')] = name

\* the step is a call of Write with zero-length data
EmptyWrite == Called("Write") /\ Len(respArg') = 0

\* the recorded headers with one more
WithHeader(headers, name, value) ==
    [n \in (DOMAIN headers) \cup {name} |-> IF n = name THEN value ELSE headers[n]]

\* C14 as stated: a Write with zero-length data emits nothing and changes no
\* state of the Response, be it the first call on the Response or a later one.
C14_EmptyWriteChangesNothing ==
    [][EmptyWrite => resp' = resp]_vars

\* C14 amended: a Write with zero-length data writes no chunk, nothing at all
\* to the body, and leaves the status alone.  Once the headers were flushed
\* it changes nothing of the Response.  On a Response whose headers were not
\* yet flushed it still records Transfer-Encoding: chunked and flushes the
\* headers, once.
C14_EmptyWriteWritesNoChunk ==
    [][EmptyWrite =>
        /\ resp'.writer.body = resp.writer.body
        /\ resp'.status = resp.status
        /\ resp.headerWritten => resp' = resp
        /\ ~resp.headerWritten =>
              /\ resp'.headerWritten
              /\ resp'.headers = WithHeader(resp.headers, "Transfer-Encoding", "chunked")
              /\ Len(Emitted') = 1
              /\ Emitted'[1].status = resp.status
              /\ Emitted'[1].header["Transfer-Encoding"] = "chunked"]_vars

\* two Writes with zero-length data, the first of which flushed the headers
C14_Witness ==
    /\ respCalls = <<"Write", "Write">>
    /\ resp.writer.body = <<>>
    /\ resp.headerWritten
    /\ Len(Emitted) = 1

\* the pieces written to the body so far
Body == resp.writer.body

\* Transfer-Encoding: chunked is among the headers given to the writer with
\* the status line
ChunkedFlushed ==
    /\ Len(Emitted) = 1
    /\ "Transfer-Encoding" \in DOMAIN Emitted[1].header
    /\ Emitted[1].header["Transfer-Encoding"] = "chunked"

HasPiece(kind) == \E i \in 1..Len(Body) : Body[i].kind = kind

\* C15: over any sequence of Json, Write and End the framing is consistent:
\* a length-framed chunk or a terminating chunk is in the body only if the
\* response is in chunked mode (Transfer-Encoding: chunked among the flushed
\* headers), and once End was called the body of a chunked response ends
\* with the terminating chunk.
C15_ChunkFramesOnlyWhenChunked ==
    /\ HasPiece("size") => ChunkedFlushed
    /\ HasPiece("last") => ChunkedFlushed
    /\ (respCalls # <<>> /\ respCalls[Len(respCalls)] = "End") =>
          (ChunkedFlushed <=> (Body # <<>> /\ Body[Len(Body)].kind = "last"))

\* the step is a call of Json
JsonCalled == Called("Json")

\* the header set and status the writer was given at the flush
EmittedHeader == Emitted[1].header
EmittedStatus == Emitted[1].status

\* the spellings of a header name among the recorded headers
Spellings(headers, key) == {n \in DOMAIN headers : CanonicalKey(n) = key}

\* the number a call of Status was given
Code(str) ==
    CASE str = <<"4", "0", "4">> -> 404
      [] str = <<"2", "0", "1">> -> 201
      [] OTHER -> 0

\* C16 as stated: after every Json call the emitted headers include
\* Content-Type: application/json and every header recorded before the
\* flush, and the emitted status is that of the Response, be the Json call the
\* first call that writes or a call after a Write or an End.
C16_JsonAlwaysEmitsContentType ==
    [][JsonCalled =>
        /\ Len(Emitted') = 1
        /\ "Content-Type" \in DOMAIN Emitted'[1].header
        /\ Emitted'[1].header["Content-Type"] = "application/json"]_vars

\* C16 amended: a Json call that is the first call to write flushes, once,
\* the status the Response holds (200 at first, then what the last Status
\* call gave: its number, or 0 when it was no number) and a header for every
\* recorded name, Content-Type included.  A name recorded under one spelling
\* carries its recorded value; Content-Type is application/json unless a
\* header was recorded as content-type as well, and then it is either of the
\* two values.  A Json call made after the flush (after a Write, an End or a
\* Json) leaves the emitted status and headers as they were, and adds no
\* Content-Type.
C16_FirstJsonEmitsContentType ==
    /\ [][(JsonCalled /\ ~resp.headerWritten) =>
            LET recorded == WithHeader(resp.headers, "Content-Type", "application/json")
            IN  /\ Len(Emitted') = 1
                /\ Emitted'[1].status = resp.status
                /\ DOMAIN Emitted'[1].header =
                      {CanonicalKey(n) : n \in DOMAIN recorded}
                /\ \A k \in DOMAIN Emitted'[1].header :
                      Emitted'[1].header[k] \in
                          {recorded[n] : n \in Spellings(recorded, k)}]_vars
    /\ [][(JsonCalled /\ resp.headerWritten) =>
            /\ Emitted' = Emitted
            /\ resp'.headers = resp.headers
            /\ resp'.writer.header = resp.writer.header]_vars
    /\ [][Called("Status") => resp'.status = Code(respArg')]_vars
    /\ [][(~Called("Status")) => resp'.status = resp.status]_vars
    /\ [](respCalls = <<>> => resp.status = 200)

\* Json was the first call to write, after a Header and a Status call
C16_Witness ==
    /\ respCalls = <<"Header", "Status", "Json">>
    /\ Len(Emitted) = 1
    /\ EmittedStatus = 404
    /\ DOMAIN EmittedHeader = {"X-Id", "Content-Type"}
    /\ EmittedHeader["X-Id"] = "1"
    /\ EmittedHeader["Content-Type"] = "application/json"

(***************************************************************************)
(* The outcome of a dispatched request.                                    *)
(***************************************************************************)
\* handleRequest has decided what to do with the request
Dispatched(r) == pc[r] \in {"handler", "release", "done"}

\* the positions of the routes the request read for its method that match
\* its path
SnapMatching(r) ==
    {k \in 1..Len(snap[r].list) : Matches(snap[r].list[k].path, reqPath[r])}

\* the handler of the first matching route was invoked, and no 404 was sent
HandlerOutcome(r) ==
    /\ invoked[r] # 0 /\ notFound[r] = 0
    /\ matchedIdx[r] \in SnapMatching(r)
    /\ \A k \in SnapMatching(r) : matchedIdx[r] <= k
    /\ invoked[r] = snap[r].list[matchedIdx[r]].handler

\* one 404 was sent and no handler was invoked
NotFoundOutcome(r) ==
    /\ invoked[r] = 0 /\ matchedIdx[r] = 0 /\ notFound[r] = 1
    /\ ~panicked[r]

\* C18: a dispatched request has exactly one outcome, decided once: either
\* the handler of the first route that matches was invoked, once, and no 404
\* was sent, or no handler was invoked and one 404 was sent; the 404 is the
\* outcome exactly when the method had no routes registered or none of its
\* patterns matched the path, in the route list the request read.
C18_ExactlyOneOutcome ==
    /\ [](\A r \in Requests : Dispatched(r) =>
            /\ HandlerOutcome(r) \/ NotFoundOutcome(r)
            /\ NotFoundOutcome(r) <=> (~snap[r].ok \/ SnapMatching(r) = {}))
    /\ [](\A r \in Requests : ~Dispatched(r) => (invoked[r] = 0 /\ notFound[r] = 0))
    /\ [](\A r \in Requests : snap[r].ok => snap[r].list # <<>>)
    /\ [][\A r \in Requests :
            /\ (pc[r] = "lookup" /\ pc'[r] # "lookup") =>
                  snap'[r] = RoutesOf(routes, reqMethod[r])
            /\ (invoked'[r] # invoked[r] \/ notFound'[r] # notFound[r]
                   \/ matchedIdx'[r] # matchedIdx[r]) =>
                  (~Dispatched(r) /\ Dispatched(r)')
            /\ (pc'[r] = "handler" /\ pc[r] # "handler") => ~Dispatched(r)
            /\ Dispatched(r) => Dispatched(r)']_vars

\* a request was answered 404 because no pattern it read matched, while a
\* route registered since then matches its path
C18_Witness ==
    \E r \in Requests :
        /\ pc[r] = "done" /\ NotFoundOutcome(r)
        /\ snap[r].ok /\ SnapMatching(r) = {}
        /\ MatchingIdx(r) # {}

(***************************************************************************)
(* The parameters handed to a handler.                                     *)
(***************************************************************************)
\* the names of the ':'-segments of a pattern
ParamNames(P) ==
    {ParamName(SegsOf(P)[i]) : i \in {j \in 1..Len(SegsOf(P)) : IsParamSeg(SegsOf(P)[j])}}

\* the route whose handler was invoked for the request
MatchedRoute(r) == snap[r].list[matchedIdx[r]]

\* a route in front of the matched one bound a parameter and then failed on
\* a literal segment
EarlierBoundThenFailed(r) ==
    \E k \in 1..(matchedIdx[r] - 1) :
        LET ps == SegsOf(snap[r].list[k].path)
            qs == SegsOf(reqPath[r])
        IN  /\ Len(ps) = Len(qs)
            /\ \E i, j \in 1..Len(ps) :
                  /\ i < j /\ IsParamSeg(ps[i])
                  /\ ParamName(ps[i]) \notin ParamNames(MatchedRoute(r).path)
                  /\ ~IsParamSeg(ps[j]) /\ ps[j] # qs[j]

\* C19: the parameters handed to the handler are the bindings of the
\* ':'-segments of the matched route, no more and no less: no binding of a
\* route tried before it is among them; and the parameters of a request
\* change only when that request is dispatched, whatever other requests do.
C19_ParamsAreThoseOfTheMatchedRoute ==
    /\ [](\A r \in Requests : invoked[r] # 0 =>
            /\ DOMAIN reqParams[r] = ParamNames(MatchedRoute(r).path)
            /\ \A i \in 1..Len(SegsOf(MatchedRoute(r).path)) :
                  IsParamSeg(SegsOf(MatchedRoute(r).path)[i]) =>
                      \E j \in i..Len(SegsOf(MatchedRoute(r).path)) :
                          /\ SegsOf(MatchedRoute(r).path)[j] = SegsOf(MatchedRoute(r).path)[i]
                          /\ reqParams[r][ParamName(SegsOf(MatchedRoute(r).path)[i])]
                                = SegsOf(reqPath[r])[j])
    /\ [](\A r \in Requests : invoked[r] = 0 => reqParams[r] = EmptyParams)
    /\ [][\A r \in Requests : reqParams'[r] # reqParams[r] =>
            (pc[r] = "route" /\ pc'[r] = "handler")]_vars

\* two handlers run at once with different parameters, one of them for a
\* request whose first route bound a parameter and then failed
C19_Witness ==
    \E r, q \in Requests :
        /\ pc[r] = "handler" /\ pc[q] = "handler"
        /\ matchedIdx[r] = 2 /\ EarlierBoundThenFailed(r)
        /\ reqParams[r] # reqParams[q]
        /\ reqParams[q] # EmptyParams

(***************************************************************************)
(* The life of a request.                                                  *)
(***************************************************************************)
\* Received: waiting for a slot; Admitted: holding one, reading the routes
\* and choosing among them; Routed: the handler of the chosen route is
\* running; Handled: the handler has returned or panicked, or the 404 was
\* sent; Completed: the slot is given back
Stage(r) ==
    CASE pc[r] = "idle" -> 0
      [] pc[r] = "acquire" -> 1
      [] pc[r] \in {"lookup", "route"} -> 2
      [] pc[r] = "handler" -> 3
      [] pc[r] = "release" -> 4
      [] pc[r] = "done" -> 5

\* C17: a request goes through Received, Admitted, Routed, Handled and
\* Completed in this order, one stage at a time (a request answered 404 goes
\* from Admitted to Handled, no handler being called), never back and never
\* to a stage twice; when the goroutines are scheduled fairly and the
\* handlers return, every request that was received is completed and the
\* worker pool is empty again: from a state where requests are under way a
\* state is reached where each of them is completed (a request under way
\* cannot go back to Stage 0) and no slot is held.
C17_EveryRequestCompletes ==
    /\ [][\A r \in Requests : Stage(r)' # Stage(r) =>
            \/ Stage(r)' = Stage(r) + 1
            \/ Stage(r) = 2 /\ Stage(r)' = 4 /\ notFound'[r] = 1]_vars
    /\ [][\A r \in Requests : pc'[r] # pc[r] =>
            (Stage(r)' > Stage(r) \/ (pc[r] = "lookup" /\ pc'[r] = "route"))]_vars
    /\ [](\A r \in Requests : Stage(r) >= 2 <=> acquired[r] = 1)
    /\ [](\A r \in Requests : Stage(r) = 5 <=> released[r] = 1)
    /\ (\E r \in Requests : Stage(r) \in 1..4) ~>
          ((\A r \in Requests : Stage(r) \in {0, 5}) /\ workerPool = 0)

\* a request waits for a slot while one handler runs and another request,
\* answered 404, is about to give its slot back
C17_Witness ==
    \E r, q, t \in Requests :
        /\ pc[r] = "acquire"
        /\ pc[q] = "handler"
        /\ pc[t] = "release" /\ notFound[t] = 1
        /\ workerPool = maxWorkers

(***************************************************************************)
(* Registration against lookups, under s.mu.                               *)
(***************************************************************************)
\* the routes of a list
Elements(list) == {list[k] : k \in 1..Len(list)}

\* the routes whose addRoute call has returned, for a method
Returned(method) == {d.route : d \in {e \in addDone : e.method = method}}

\* every route of the table is whole
TableWhole ==
    \A m \in DOMAIN routes : \A k \in 1..Len(routes[m]) : routes[m][k].handler # 0

\* C13: registration is linearized against lookups.  While a lookup holds
\* the read lock no append is under way and the table holds whole routes
\* only; what the lookup reads is the list of its method as the calls of
\* addRoute that returned before have left it, every one of their routes
\* among its elements and no other route; and the list a request works on
\* never holds a route that is not whole, whatever is appended meanwhile.
C13_LookupsSeeWholeRoutes ==
    /\ [](srvMu.readers # {} =>
            (~srvMu.writer /\ regPc = "idle" /\ TableWhole))
    /\ [](srvMu.writer => srvMu.readers = {})
    /\ [][\A r \in Requests : (pc[r] = "locked" /\ pc'[r] # "locked") =>
            /\ r \in srvMu.readers
            /\ snap'[r].ok <=> Returned(reqMethod[r]) # {}
            /\ Elements(snap'[r].list) = Returned(reqMethod[r])
            /\ Len(snap'[r].list) = Cardinality(Returned(reqMethod[r]))]_vars
    /\ [][\A r \in Requests : snap'[r] # snap[r] => pc[r] = "locked"]_vars
    /\ [](\A r \in Requests : \A k \in 1..Len(snap[r].list) :
            /\ snap[r].list[k].handler # 0
            /\ snap[r].list[k] \in Returned(reqMethod[r]))
    /\ [](\A r \in Requests : invoked[r] # 0 =>
            \E route \in Returned(reqMethod[r]) : route.handler = invoked[r])

\* a request works on the list it read, of one route, while the third route
\* is being appended and is not yet whole, and another request waits for the
\* read lock
C13_Witness ==
    /\ regPc = "fill" /\ ~TableWhole /\ srvMu.writer
    /\ Len(routes[MethodGet]) = 3
    /\ \E r, q \in Requests :
          /\ pc[r] = "handler" /\ Len(snap[r].list) = 1
          /\ pc[q] = "lookup" /\ reqMethod[q] = MethodGet

(***************************************************************************)
(* Shutdown of the process.                                                *)
(***************************************************************************)
\* Server.Shutdown was called and has closed the listener
ShuttingDown == shutdownOn = "server"

\* C11: with a handler in flight when the signal comes, no new request is
\* accepted once main has called Shutdown; the process ends with the handler
\* still running only if the context was done (the grace period over) and
\* Shutdown returned its error, and when Shutdown returned nil no request is
\* left under way; and in each case main returns, which ends the process,
\* some time after the signal.
C11_ShutdownWithHandlerInFlight ==
    /\ [][ShuttingDown => \A r \in MainRequests :
            pc[r] = "idle" => pc'[r] = "idle"]_vars
    /\ [](ShuttingDown => listener # "open")
    /\ []((procExit # "running" /\ InFlight # {}) =>
            (procExit = "returned" /\ ctx = "done" /\ shutdownErr = "deadline"))
    /\ []((procExit = "returned" /\ shutdownErr = "nil") => InFlight = {})
    /\ [](procExit = "returned" => ShuttingDown)
    /\ (sigChan > 0 /\ \E r \in MainRequests : pc[r] = "handler")
          ~> (procExit = "returned")

\* the process has ended after the grace period, one handler having
\* returned during the shutdown and another left running
C11_Witness ==
    /\ procExit = "returned" /\ shutdownErr = "deadline"
    /\ \E r, q \in MainRequests :
          /\ pc[r] = "handler"
          /\ pc[q] = "done" /\ invoked[q] # 0 /\ ~panicked[q]

\* C20: in every interleaving of the two goroutines Server.Shutdown is
\* called on a server that Listen has created, never on the nil s.server, be
\* it after a signal or after a failure of the listener, and shutdownChan is
\* closed at most once.
C20_ShutdownOnlyAfterListen ==
    /\ shutdownOn # "nil"
    /\ shutdownOn = "server" => srvServer = "set"
    /\ shutdownChan <= 1

====
